---------------------------- MODULE Spec2Model ----------------------------
(* Model of src/server.js: the Siri -> Google Calendar bridge.             *)
(* Strings are sequences of one-character strings, instants are epoch     *)
(* milliseconds, an ISO string is the record of its UTC fields.           *)
EXTENDS Integers, Sequences, FiniteSets, TLC

VARIABLES
    call,        \* last call of a utility function: arguments and result
    pc,          \* position of the request in flight
    req,         \* the request in flight: route and body
    frame,       \* the handler's local constants (parsedDate, targetDate, ...)
    calls,       \* calendar.events.* invocations made for the request in flight
    responses,   \* responses sent for the request in flight
    store,       \* the events held by the calendar backend
    nextId,      \* next event id the backend hands out
    served,      \* number of requests received so far
    processTZ    \* UTC offset (ms) of the process's local timezone

vars == <<call, pc, req, frame, calls, responses, store, nextId, served, processTZ>>
srvVars == <<pc, req, frame, calls, responses, store, nextId, served>>

----------------------------------------------------------------------------
(* Bounds *)
MaxFrags == 4
MaxExprs == 2
MaxTitleLen == 2
MaxEvents == 2
MaxRequests == 2

----------------------------------------------------------------------------
(* JavaScript string primitives used by the utilities *)

UpperChars == {"A", "C", "F", "X"}

LowerChar(c) ==
    CASE c = "A" -> "a"
      [] c = "C" -> "c"
      [] c = "F" -> "f"
      [] c = "X" -> "x"
      [] OTHER -> c

RECURSIVE toLowerCase(_)
toLowerCase(s) ==
    IF s = <<>> THEN <<>> ELSE <<LowerChar(Head(s))>> \o toLowerCase(Tail(s))

IsSpace(c) == c = " "

\* \w of the regular expression: every character of the alphabet but the blank
IsWordChar(c) == ~IsSpace(c)

MatchAt(s, pat, i) ==
    /\ i >= 1
    /\ i + Len(pat) - 1 <= Len(s)
    /\ \A k \in 1..Len(pat) : s[i + k - 1] = pat[k]

\* String.prototype.indexOf, 1-based; 0 when absent
IndexOf(s, pat) ==
    LET hits == {i \in 1..(Len(s) + 1) : MatchAt(s, pat, i)}
    IN IF hits = {} THEN 0 ELSE CHOOSE i \in hits : \A j \in hits : i <= j

includes(s, pat) == IndexOf(s, pat) # 0

\* s.replace(pat, ''), pat a string: only the first occurrence goes
replaceFirst(s, pat) ==
    LET i == IndexOf(s, pat)
    IN IF i = 0 THEN s
       ELSE SubSeq(s, 1, i - 1) \o SubSeq(s, i + Len(pat), Len(s))

trim(s) ==
    LET keep == {i \in 1..Len(s) : ~IsSpace(s[i])}
    IN IF keep = {} THEN <<>>
       ELSE LET lo == CHOOSE i \in keep : \A j \in keep : i <= j
                hi == CHOOSE i \in keep : \A j \in keep : i >= j
            IN SubSeq(s, lo, hi)

Verbs == { <<"c","a","n","c","e","l">>,
           <<"d","e","l","e","t","e">>,
           <<"r","e","m","o","v","e">> }

\* \b before index i (i in 1..Len(s)+1)
WordBoundary(s, i) ==
    LET left == i > 1 /\ IsWordChar(s[i - 1])
        right == i <= Len(s) /\ IsWordChar(s[i])
    IN left # right

VerbAt(s, i) ==
    \E v \in Verbs :
        /\ MatchAt(toLowerCase(s), v, i)
        /\ WordBoundary(s, i)
        /\ WordBoundary(s, i + Len(v))

RECURSIVE StripFrom(_, _)
StripFrom(s, i) ==
    IF i > Len(s) THEN <<>>
    ELSE IF VerbAt(s, i) THEN StripFrom(s, i + 6)
    ELSE <<s[i]>> \o StripFrom(s, i + 1)

\* s.replace(/\b(cancel|delete|remove)\b/gi, '')
stripVerbs(s) == StripFrom(s, 1)

----------------------------------------------------------------------------
(* Utility functions *)

RECURSIVE RemoveEach(_, _)
RemoveEach(s, texts) ==
    IF texts = <<>> THEN s
    ELSE RemoveEach(trim(replaceFirst(s, Head(texts))), Tail(texts))

Texts(parsedDate) == [i \in 1..Len(parsedDate) |-> parsedDate[i].text]

\* as extractEventTitle, without the removals
extractEventTitle_keepsText(eventText, parsedDate) == trim(eventText)

extractEventTitle(eventText, parsedDate) ==
    RemoveEach(eventText, Texts(parsedDate))

\* as extractSearchTitle, without the trim that follows the verbs' removal
extractSearchTitle_noFinalTrim(eventText, parsedDate) ==
    stripVerbs(RemoveEach(toLowerCase(eventText), Texts(parsedDate)))

extractSearchTitle(eventText, parsedDate) ==
    trim(stripVerbs(RemoveEach(toLowerCase(eventText), Texts(parsedDate))))

Matches(event, searchTitle) ==
    \/ includes(toLowerCase(event.summary), searchTitle)
    \/ includes(searchTitle, toLowerCase(event.summary))

\* as findMatchingEvent, testing only whether the title contains the search title
findMatchingEvent_oneWay(events, searchTitle) ==
    LET hits == {i \in 1..Len(events) :
                    includes(toLowerCase(events[i].summary), searchTitle)}
    IN IF hits = {} THEN 0 ELSE CHOOSE i \in hits : \A j \in hits : i <= j

\* Array.prototype.find: index of the first element satisfying the predicate,
\* 0 for undefined
findMatchingEvent(events, searchTitle) ==
    LET hits == {i \in 1..Len(events) : Matches(events[i], searchTitle)}
    IN IF hits = {} THEN 0 ELSE CHOOSE i \in hits : \A j \in hits : i <= j


----------------------------------------------------------------------------
(* Dates: an instant is epoch milliseconds, all within January 1970 *)

SecondMs == 1000
MinuteMs == 60000
HourMs == 3600000
DayMs == 86400000

\* Asia/Dubai is UTC+4 all year
DubaiOffset == 4 * HourMs

\* Date.prototype.toISOString: the UTC fields of the instant
toISOString(t) ==
    [day |-> (t \div DayMs) + 1,
     hour |-> (t % DayMs) \div HourMs,
     minute |-> (t % HourMs) \div MinuteMs,
     second |-> (t % MinuteMs) \div SecondMs,
     ms |-> t % SecondMs]

\* new Date(isoString).getTime()
DateParse(iso) ==
    (iso.day - 1) * DayMs + iso.hour * HourMs + iso.minute * MinuteMs
        + iso.second * SecondMs + iso.ms

\* Date.prototype.setHours(h, m, s, ms) in a zone tz ms ahead of UTC
setHours(t, tz, h, m, s, ms) ==
    ((t + tz) \div DayMs) * DayMs
        + h * HourMs + m * MinuteMs + s * SecondMs + ms - tz

getDateRange(date, tz) ==
    LET start == setHours(date, tz, 0, 0, 0, 0)
    IN [timeMin |-> toISOString(start),
        timeMax |-> toISOString(setHours(start, tz, 23, 59, 59, 999))]

\* toLocaleTimeString('en-US', hour numeric, minute 2-digit, hour12, Asia/Dubai)
formatTime(t) ==
    LET local == (t + DubaiOffset) % DayMs
        h == local \div HourMs
    IN [hour |-> IF h % 12 = 0 THEN 12 ELSE h % 12,
        minute |-> (local % HourMs) \div MinuteMs,
        ampm |-> IF h < 12 THEN "AM" ELSE "PM"]

\* toLocaleDateString('en-US', weekday long, month long, day numeric, Asia/Dubai)
\* 1 January 1970 was a Thursday (weekday 4, Sunday = 0)
formatDate(t) ==
    LET d == (t + DubaiOffset) \div DayMs
    IN [weekday |-> (d + 4) % 7, month |-> "January", day |-> d + 1]

Expr(text, start, hasEnd, end) ==
    [text |-> text, start |-> start, hasEnd |-> hasEnd, end |-> end]

\* as createEventObject, always ending half an hour after the start
createEventObject_halfHour(title, parsedDate) ==
    [summary |-> title,
     start |-> [dateTime |-> toISOString(parsedDate.start),
                timeZone |-> "Asia/Dubai"],
     end |-> [dateTime |-> toISOString(parsedDate.start + 30 * MinuteMs),
              timeZone |-> "Asia/Dubai"]]

createEventObject(title, parsedDate) ==
    [summary |-> title,
     start |-> [dateTime |-> toISOString(parsedDate.start),
                timeZone |-> "Asia/Dubai"],
     end |-> [dateTime |-> IF parsedDate.hasEnd
                             THEN toISOString(parsedDate.end)
                             ELSE toISOString(parsedDate.start + 60 * 60 * 1000),
              timeZone |-> "Asia/Dubai"]]

\* One line of the event list: "<summary> at <time>. "
EventLine(event) ==
    [summary |-> event.summary, hasSummary |-> event.hasSummary,
     time |-> formatTime(event.start)]

buildEventListResponse(events, dateContext) ==
    IF Len(events) = 0
    THEN [msg |-> "You have no events scheduled for", date |-> dateContext]
    ELSE [msg |-> "For, you have",
          date |-> dateContext,
          count |-> Len(events),
          plural |-> Len(events) > 1,
          lines |-> [i \in 1..Len(events) |-> EventLine(events[i])]]

----------------------------------------------------------------------------
(* Inputs of the utility functions *)

Cancel == <<"c","a","n","c","e","l">>
Frags == { Cancel, <<" ">>, <<"x">>, <<"f","r","i">>, <<"F","r","i">>,
           <<"f","f","r","i","r","i">> }
DateTexts == { <<"f","r","i">>, <<"F","r","i">> }

RECURSIVE Concats(_)
Concats(n) ==
    IF n = 0 THEN {<<>>}
    ELSE LET prev == Concats(n - 1)
         IN prev \cup {p \o f : p \in prev, f \in Frags}

Utterances == Concats(MaxFrags)

RECURSIVE SeqsUpTo(_, _)
SeqsUpTo(S, n) ==
    IF n = 0 THEN {<<>>}
    ELSE LET prev == SeqsUpTo(S, n - 1)
         IN prev \cup {Append(p, x) : p \in prev, x \in S}

TitleChars == {"a", "A", "b"}
Titles == SeqsUpTo(TitleChars, MaxTitleLen)

\* Instants: 01:30 and 23:15:00.250 UTC on 2 January, noon UTC on 3 January
Instants == { DayMs + HourMs + 30 * MinuteMs,
              DayMs + 23 * HourMs + 15 * MinuteMs + 250,
              2 * DayMs + 12 * HourMs }

\* Offsets the process's local timezone may have: UTC, Dubai, New York (EST)
TZOffsets == {0, DubaiOffset, 0 - 5 * HourMs}

\* What chrono.parse may return for the text fields of its results
TextExprs(u) ==
    SeqsUpTo({Expr(t, 0, FALSE, 0) : t \in {d \in DateTexts : includes(u, d)}},
             MaxExprs)

Record(id, summary, start) ==
    [id |-> id, hasSummary |-> TRUE, summary |-> summary, start |-> start]

----------------------------------------------------------------------------
(* The server: one request in flight, handled step by step *)

Idle == [route |-> "none", malformed |-> FALSE, hasText |-> FALSE, text |-> <<>>]

\* the handler's locals; parsed, listed and failed record what has happened
NoFrame ==
    [parsed |-> FALSE, parsedDate |-> <<>>, targetDate |-> 0,
     timeMin |-> 0, timeMax |-> 0, title |-> <<>>, event |-> 0,
     listed |-> FALSE, items |-> <<>>, match |-> 0, failed |-> 0,
     before |-> {}]

Routes == {"today", "create", "query", "delete"}

\* eventText / dateText values a request may carry
RequestTexts ==
    { <<>>,
      <<"x", " ", "f", "r", "i">>,
      <<"c","a","n","c","e","l", " ", "X", " ", "F", "r", "i">>,
      <<"c","a","n","c","e","l", " ", "x">> }

\* chrono.parse: nothing without a date text, else one expression whose text
\* is the leftmost date text and whose instants chrono resolves
ChronoParse(text) ==
    LET found == {d \in DateTexts : includes(text, d)}
    IN IF found = {} THEN {<<>>}
       ELSE LET t == CHOOSE d \in found :
                        \A e \in found : IndexOf(text, d) <= IndexOf(text, e)
            IN { <<Expr(t, start, hasEnd, IF hasEnd THEN start + HourMs ELSE 0)>>
                 : start \in Instants, hasEnd \in BOOLEAN }

\* calendars the backend may hold when the server starts
Untitled(id, start) ==
    [id |-> id, hasSummary |-> FALSE, summary |-> <<>>, start |-> start]

I1 == DayMs + HourMs + 30 * MinuteMs
I3 == 2 * DayMs + 12 * HourMs

InitialStores ==
    { {},
      {Record(1, <<"X">>, I1), Record(2, <<"y">>, I3)},
      {Record(1, <<"y">>, I1), Record(2, <<"y">>, I3)},
      {Untitled(1, I1), Record(2, <<"X">>, I3)} }

Earlier(a, b) == a.start < b.start \/ (a.start = b.start /\ a.id <= b.id)

RECURSIVE ByStartTime(_)
ByStartTime(S) ==
    IF S = {} THEN <<>>
    ELSE LET first == CHOOSE a \in S : \A b \in S : Earlier(a, b)
         IN <<first>> \o ByStartTime(S \ {first})

\* calendar.events.list with singleEvents, orderBy startTime
ListEvents(timeMin, timeMax) ==
    ByStartTime({e \in store : /\ e.start >= DateParse(timeMin)
                                /\ e.start <= DateParse(timeMax)})

Json(siriResponse) == [status |-> 200, body |-> [siriResponse |-> siriResponse]]

handleApiError(error, customMessage) ==
    [status |-> 200,
     body |-> [error |-> error, siriResponse |-> [msg |-> customMessage]]]

Apology(route) ==
    CASE route = "today" -> "Sorry, I couldn't access your calendar right now."
      [] route = "create" -> "Sorry, I couldn't create the event right now."
      [] route = "query" -> "Sorry, I couldn't check your calendar right now."
      [] route = "delete" -> "Sorry, I couldn't cancel the event right now."

\* res.json(...) ends the request
Respond(r) ==
    /\ responses' = Append(responses, r)
    /\ pc' = "done"

\* an awaited backend call is issued
Await(op, c) ==
    /\ calls' = Append(calls, c)
    /\ pc' = op

NoText == ~req.hasText \/ req.text = <<>>

Receive ==
    /\ pc \in {"idle", "done"}
    /\ served < MaxRequests
    /\ \E route \in Routes, malformed \in BOOLEAN, hasText \in BOOLEAN,
          text \in RequestTexts :
          /\ hasText \/ text = <<>>
          /\ malformed => ~hasText
          /\ route = "today" => ~hasText
          /\ req' = [route |-> route, malformed |-> malformed,
                     hasText |-> hasText, text |-> text]
    /\ pc' = "json"
    /\ served' = served + 1
    /\ frame' = [NoFrame EXCEPT !.before = store]
    /\ calls' = <<>>
    /\ responses' = <<>>
    /\ UNCHANGED <<call, store, nextId, processTZ>>

\* app.use(express.json()): a body that is not JSON goes to next(err)
ExpressJson ==
    /\ pc = "json"
    /\ pc' = IF req.malformed THEN "errorMiddleware" ELSE "handler"
    /\ UNCHANGED <<call, req, frame, calls, responses, store, nextId, served,
                   processTZ>>

ErrorMiddleware ==
    /\ pc = "errorMiddleware"
    /\ Respond([status |-> 500,
                body |-> [error |-> "Internal server error",
                          siriResponse |->
                              [msg |-> "Sorry, something went wrong. Please try again later."]]])
    /\ UNCHANGED <<call, req, frame, calls, store, nextId, served, processTZ>>

TodayHandler ==
    /\ pc = "handler" /\ req.route = "today"
    /\ \E now \in Instants :
          LET range == getDateRange(now, processTZ)
          IN /\ frame' = [frame EXCEPT !.timeMin = range.timeMin,
                                        !.timeMax = range.timeMax]
             /\ Await("list", [op |-> "list", timeMin |-> range.timeMin,
                               timeMax |-> range.timeMax])
    /\ UNCHANGED <<call, req, responses, store, nextId, served, processTZ>>

CreateHandler ==
    /\ pc = "handler" /\ req.route = "create"
    /\ IF NoText
       THEN /\ Respond(Json([msg |-> "Please provide event details."]))
            /\ UNCHANGED <<frame, calls>>
       ELSE \E parsedDate \in ChronoParse(req.text) :
              IF Len(parsedDate) = 0
              THEN /\ frame' = [frame EXCEPT !.parsed = TRUE]
                   /\ Respond(Json([msg |-> "I couldn't understand the date and time for this event."]))
                   /\ UNCHANGED calls
              ELSE LET eventTitle == extractEventTitle(req.text, parsedDate)
                       event == createEventObject(eventTitle, parsedDate[1])
                   IN /\ frame' = [frame EXCEPT !.parsed = TRUE,
                                                 !.parsedDate = parsedDate,
                                                 !.title = eventTitle,
                                                 !.event = event]
                      /\ Await("insert", [op |-> "insert", resource |-> event])
                      /\ UNCHANGED responses
    /\ UNCHANGED <<call, req, store, nextId, served, processTZ>>

\* as QueryHandler, treating an empty parse the way DeleteHandler does
QueryHandler_defaultsToNow ==
    /\ pc = "handler" /\ req.route = "query"
    /\ IF NoText
       THEN /\ Respond(Json([msg |-> "Please specify which day you'd like to check."]))
            /\ UNCHANGED <<frame, calls>>
       ELSE \E parsedDate \in ChronoParse(req.text), now \in Instants :
              LET targetDate == IF Len(parsedDate) = 0 THEN now
                                ELSE parsedDate[1].start
                  range == getDateRange(targetDate, processTZ)
              IN /\ frame' = [frame EXCEPT !.parsed = TRUE,
                                            !.parsedDate = parsedDate,
                                            !.targetDate = targetDate,
                                            !.timeMin = range.timeMin,
                                            !.timeMax = range.timeMax]
                 /\ Await("list", [op |-> "list", timeMin |-> range.timeMin,
                                   timeMax |-> range.timeMax])
                 /\ UNCHANGED responses
    /\ UNCHANGED <<call, req, store, nextId, served, processTZ>>

QueryHandler ==
    /\ pc = "handler" /\ req.route = "query"
    /\ IF NoText
       THEN /\ Respond(Json([msg |-> "Please specify which day you'd like to check."]))
            /\ UNCHANGED <<frame, calls>>
       ELSE \E parsedDate \in ChronoParse(req.text) :
              IF Len(parsedDate) = 0
              THEN /\ frame' = [frame EXCEPT !.parsed = TRUE]
                   /\ Respond(Json([msg |-> "I couldn't understand which date you meant."]))
                   /\ UNCHANGED calls
              ELSE LET targetDate == parsedDate[1].start
                       range == getDateRange(targetDate, processTZ)
                   IN /\ frame' = [frame EXCEPT !.parsed = TRUE,
                                                 !.parsedDate = parsedDate,
                                                 !.targetDate = targetDate,
                                                 !.timeMin = range.timeMin,
                                                 !.timeMax = range.timeMax]
                      /\ Await("list", [op |-> "list", timeMin |-> range.timeMin,
                                        timeMax |-> range.timeMax])
                      /\ UNCHANGED responses
    /\ UNCHANGED <<call, req, store, nextId, served, processTZ>>

DeleteHandler ==
    /\ pc = "handler" /\ req.route = "delete"
    /\ IF NoText
       THEN /\ Respond(Json([msg |-> "Please specify which event you'd like to cancel."]))
            /\ UNCHANGED <<frame, calls>>
       ELSE \E parsedDate \in ChronoParse(req.text), now \in Instants :
              LET targetDate == IF Len(parsedDate) = 0 THEN now
                                ELSE parsedDate[1].start
                  range == getDateRange(targetDate, processTZ)
                  searchTitle == extractSearchTitle(req.text, parsedDate)
              IN /\ frame' = [frame EXCEPT !.parsed = TRUE,
                                            !.parsedDate = parsedDate,
                                            !.targetDate = targetDate,
                                            !.timeMin = range.timeMin,
                                            !.timeMax = range.timeMax,
                                            !.title = searchTitle]
                 /\ Await("list", [op |-> "list", timeMin |-> range.timeMin,
                                   timeMax |-> range.timeMax])
                 /\ UNCHANGED responses
    /\ UNCHANGED <<call, req, store, nextId, served, processTZ>>

\* event.summary.toLowerCase() throws on an event without a summary; find
\* reaches such an event only when no earlier event matched
FindThrows(items, searchTitle) ==
    \E i \in 1..Len(items) :
        /\ ~items[i].hasSummary
        /\ \A j \in 1..(i - 1) :
              items[j].hasSummary /\ ~Matches(items[j], searchTitle)

\* the events find looks at before it returns or throws
Titled(items) ==
    LET bad == {i \in 1..Len(items) : ~items[i].hasSummary}
    IN IF bad = {} THEN items
       ELSE SubSeq(items, 1, (CHOOSE i \in bad : \A j \in bad : i <= j) - 1)

\* as DeleteAfterList, testing the list's length instead of the match
DeleteAfterList_deletesFirst(items) ==
    LET searchTitle == frame.title
        m == findMatchingEvent(Titled(items), searchTitle)
    IN IF m = 0 /\ FindThrows(items, searchTitle)
       THEN /\ frame' = [frame EXCEPT !.items = items]
            /\ Respond(handleApiError("TypeError", Apology("delete")))
            /\ UNCHANGED calls
       ELSE IF m = 0 /\ Len(items) = 0
       THEN /\ frame' = [frame EXCEPT !.items = items, !.listed = TRUE]
            /\ Respond(Json([msg |-> "I couldn't find an event matching",
                             title |-> searchTitle,
                             date |-> formatDate(frame.targetDate)]))
            /\ UNCHANGED calls
       ELSE /\ frame' = [frame EXCEPT !.items = items, !.listed = TRUE]
            /\ Await("delete", [op |-> "delete", eventId |-> items[1].id])
            /\ UNCHANGED responses

\* the rest of the delete handler once the list has arrived
DeleteAfterList(items) ==
    LET searchTitle == frame.title
        m == findMatchingEvent(Titled(items), searchTitle)
    IN IF m = 0 /\ FindThrows(items, searchTitle)
       THEN /\ frame' = [frame EXCEPT !.items = items]
            /\ Respond(handleApiError("TypeError", Apology("delete")))
            /\ UNCHANGED calls
       ELSE IF m = 0
       THEN /\ frame' = [frame EXCEPT !.items = items, !.listed = TRUE]
            /\ Respond(Json([msg |-> "I couldn't find an event matching",
                             title |-> searchTitle,
                             date |-> formatDate(frame.targetDate)]))
            /\ UNCHANGED calls
       ELSE /\ frame' = [frame EXCEPT !.items = items, !.listed = TRUE,
                                      !.match = items[m].id,
                                      !.event = items[m]]
            /\ Await("delete", [op |-> "delete", eventId |-> items[m].id])
            /\ UNCHANGED responses

\* the awaited calendar.events.list settles
ListReturn ==
    /\ pc = "list"
    /\ \E ok \in BOOLEAN :
          IF ~ok
          THEN /\ frame' = [frame EXCEPT !.failed = Len(calls)]
               /\ Respond(handleApiError("backend", Apology(req.route)))
               /\ UNCHANGED calls
          ELSE LET items == ListEvents(frame.timeMin, frame.timeMax)
               IN IF req.route = "delete"
                  THEN DeleteAfterList(items)
                  ELSE /\ frame' = [frame EXCEPT !.items = items, !.listed = TRUE]
                       /\ Respond(Json(buildEventListResponse(items,
                              IF req.route = "today" THEN "today"
                              ELSE formatDate(frame.targetDate))))
                       /\ UNCHANGED calls
    /\ UNCHANGED <<call, req, store, nextId, served, processTZ>>

\* the awaited calendar.events.insert settles
InsertReturn ==
    /\ pc = "insert"
    /\ \E ok \in BOOLEAN :
          IF ~ok
          THEN /\ frame' = [frame EXCEPT !.failed = Len(calls)]
               /\ Respond(handleApiError("backend", Apology("create")))
               /\ UNCHANGED <<store, nextId>>
          ELSE LET start == DateParse(frame.event.start.dateTime)
               IN /\ store' = store \cup {Record(nextId, frame.title, start)}
                  /\ nextId' = nextId + 1
                  /\ Respond(Json([msg |-> "Added to your calendar for at",
                                   title |-> frame.title,
                                   date |-> formatDate(start),
                                   time |-> formatTime(start)]))
                  /\ UNCHANGED frame
    /\ UNCHANGED <<call, req, calls, served, processTZ>>

\* as DeleteReturn, calling events.delete again after a failure
DeleteReturn_retries ==
    /\ pc = "delete"
    /\ \E ok \in BOOLEAN :
          IF ~ok
          THEN IF Len(calls) < 3
               THEN /\ frame' = [frame EXCEPT !.failed = Len(calls)]
                    /\ Await("delete", calls[Len(calls)])
                    /\ UNCHANGED <<store, responses>>
               ELSE /\ frame' = [frame EXCEPT !.failed = Len(calls)]
                    /\ Respond(handleApiError("backend", Apology("delete")))
                    /\ UNCHANGED <<store, calls>>
          ELSE /\ store' = {e \in store : e.id # frame.match}
               /\ Respond(Json([msg |-> "I've cancelled at",
                                title |-> frame.event.summary,
                                time |-> formatTime(frame.event.start)]))
               /\ UNCHANGED <<frame, calls>>
    /\ UNCHANGED <<call, req, nextId, served, processTZ>>

\* the awaited calendar.events.delete settles
DeleteReturn ==
    /\ pc = "delete"
    /\ \E ok \in BOOLEAN :
          IF ~ok
          THEN /\ frame' = [frame EXCEPT !.failed = Len(calls)]
               /\ Respond(handleApiError("backend", Apology("delete")))
               /\ UNCHANGED store
          ELSE /\ store' = {e \in store : e.id # frame.match}
               /\ Respond(Json([msg |-> "I've cancelled at",
                                title |-> frame.event.summary,
                                time |-> formatTime(frame.event.start)]))
               /\ UNCHANGED frame
    /\ UNCHANGED <<call, req, calls, nextId, served, processTZ>>

Init ==
    /\ call = [fn |-> "none", state |-> "none"]
    /\ pc = "idle"
    /\ req = Idle
    /\ frame = NoFrame
    /\ calls = <<>>
    /\ responses = <<>>
    /\ store \in InitialStores
    /\ nextId = 3
    /\ served = 0
    /\ processTZ \in TZOffsets

Next ==
    \/ Receive
    \/ ExpressJson
    \/ ErrorMiddleware
    \/ TodayHandler
    \/ CreateHandler
    \/ QueryHandler
    \/ DeleteHandler
    \/ ListReturn
    \/ InsertReturn
    \/ DeleteReturn

Spec == Init /\ [][Next]_vars

----------------------------------------------------------------------------
(* Properties of the server, checked under Spec *)

SiriMsg(i) == responses[i].body.siriResponse.msg

CouldntUnderstand ==
    { "I couldn't understand the date and time for this event.",
      "I couldn't understand which date you meant." }

CallsOf(op) == {i \in 1..Len(calls) : calls[i].op = op}

\* C1: every request to the four endpoints is answered with status 200 and a
\* JSON body holding siriResponse; no response has another status.
C1_Always200 ==
    /\ \A i \in 1..Len(responses) :
          /\ responses[i].status = 200
          /\ "siriResponse" \in DOMAIN responses[i].body
    /\ pc = "done" => Len(responses) = 1

EmptyParse == frame.parsed /\ frame.parsedDate = <<>>

\* C2 as stated: in create, query and delete, when the parser returns an empty
\* sequence the request is answered with the fixed "couldn't understand"
\* message and no backend call is made.
C2_EmptyParseStops ==
    EmptyParse =>
        /\ calls = <<>>
        /\ pc = "done"
        /\ Len(responses) = 1
        /\ SiriMsg(1) \in CouldntUnderstand

\* C2 amended: in create and query, when the parser returns an empty sequence
\* the request is answered with the fixed "couldn't understand" message and
\* no backend call is made; in delete an empty parse is no error: the target
\* date is the current instant, events.list is called for its day and no
\* "couldn't understand" message is sent.
C2_EmptyParseStopsCreateAndQuery ==
    /\ (EmptyParse /\ req.route \in {"create", "query"}) =>
          /\ calls = <<>>
          /\ pc = "done"
          /\ Len(responses) = 1
          /\ SiriMsg(1) \in CouldntUnderstand
    /\ (EmptyParse /\ req.route = "delete") =>
          /\ frame.targetDate \in Instants
          /\ Len(calls) >= 1
          /\ calls[1].op = "list"
          /\ \A i \in 1..Len(responses) : SiriMsg(i) \notin CouldntUnderstand

\* a query whose text holds no date has been answered, the calendar not empty
C2_Witness ==
    /\ EmptyParse
    /\ req.route = "query"
    /\ req.text # <<>>
    /\ pc = "done"
    /\ store # {}

\* C3: in a delete request, when no listed event matches, events.delete is not
\* called, the calendar is as it was, and the response names the searched
\* title and the date.
C3_NoMatchNoDelete ==
    (req.route = "delete" /\ frame.listed /\ frame.match = 0) =>
        /\ CallsOf("delete") = {}
        /\ store = frame.before
        /\ pc = "done"
        /\ Len(responses) = 1
        /\ SiriMsg(1) = "I couldn't find an event matching"
        /\ responses[1].body.siriResponse.title = frame.title
        /\ responses[1].body.siriResponse.date = formatDate(frame.targetDate)

\* events were listed for the day and none of them matched
C3_Witness ==
    /\ req.route = "delete"
    /\ frame.listed
    /\ frame.match = 0
    /\ frame.items # <<>>
    /\ pc = "done"

\* C4: within a request each backend operation is invoked at most once; when
\* a backend call fails no further backend call is made and exactly one
\* response, the operation's apology, is sent.
C4_NoRetry ==
    /\ \A op \in {"list", "insert", "delete"} : Cardinality(CallsOf(op)) <= 1
    /\ Len(responses) <= 1
    /\ frame.failed # 0 =>
          /\ Len(calls) = frame.failed
          /\ pc = "done"
          /\ Len(responses) = 1
          /\ responses[1].status = 200
          /\ SiriMsg(1) = Apology(req.route)

\* events.delete failed after events.list had succeeded
C4_Witness ==
    /\ frame.failed = 2
    /\ calls[2].op = "delete"
    /\ pc = "done"

----------------------------------------------------------------------------
(* The utility functions on their own: the initial state holds the          *)
(* arguments of one call, the function's action computes the result.        *)

TextCalls(fn) ==
    UNION { { [fn |-> fn, state |-> "called", eventText |-> u, parsedDate |-> E]
              : E \in TextExprs(u) } : u \in Utterances }

MatchCalls ==
    { [fn |-> "findMatchingEvent", state |-> "called",
       events |-> [i \in 1..Len(titles) |-> Record(i, titles[i], 0)],
       searchTitle |-> searchTitle]
      : titles \in SeqsUpTo(Titles, MaxEvents), searchTitle \in Titles }

DraftCalls ==
    { [fn |-> "createEventObject", state |-> "called", title |-> title,
       expression |-> Expr(<<"f","r","i">>, start, hasEnd,
                           IF hasEnd THEN start + len ELSE 0)]
      : title \in Titles, start \in Instants, hasEnd \in BOOLEAN,
        len \in {0, 90 * MinuteMs} }

RangeCalls ==
    { [fn |-> "getDateRange", state |-> "called", date |-> date]
      : date \in Instants }

CallExtractEventTitle ==
    /\ call.fn = "extractEventTitle" /\ call.state = "called"
    /\ call' = [fn |-> call.fn, state |-> "returned",
                eventText |-> call.eventText, parsedDate |-> call.parsedDate,
                result |-> extractEventTitle(call.eventText, call.parsedDate)]
    /\ UNCHANGED <<srvVars, processTZ>>

CallExtractSearchTitle ==
    /\ call.fn = "extractSearchTitle" /\ call.state = "called"
    /\ call' = [fn |-> call.fn, state |-> "returned",
                eventText |-> call.eventText, parsedDate |-> call.parsedDate,
                result |-> extractSearchTitle(call.eventText, call.parsedDate)]
    /\ UNCHANGED <<srvVars, processTZ>>

\* the normalizer applied to its own result, with the same expressions
ReapplyExtractSearchTitle ==
    /\ call.fn = "extractSearchTitle" /\ call.state = "returned"
    /\ call' = [fn |-> call.fn, state |-> "reapplied",
                eventText |-> call.eventText, parsedDate |-> call.parsedDate,
                once |-> call.result,
                result |-> extractSearchTitle(call.result, call.parsedDate)]
    /\ UNCHANGED <<srvVars, processTZ>>

CallFindMatchingEvent ==
    /\ call.fn = "findMatchingEvent" /\ call.state = "called"
    /\ call' = [fn |-> call.fn, state |-> "returned",
                events |-> call.events, searchTitle |-> call.searchTitle,
                result |-> findMatchingEvent(call.events, call.searchTitle)]
    /\ UNCHANGED <<srvVars, processTZ>>

CallCreateEventObject ==
    /\ call.fn = "createEventObject" /\ call.state = "called"
    /\ call' = [fn |-> call.fn, state |-> "returned",
                title |-> call.title, expression |-> call.expression,
                result |-> createEventObject(call.title, call.expression)]
    /\ UNCHANGED <<srvVars, processTZ>>

CallGetDateRange ==
    /\ call.fn = "getDateRange" /\ call.state = "called"
    /\ call' = [fn |-> call.fn, state |-> "returned", date |-> call.date,
                result |-> getDateRange(call.date, processTZ)]
    /\ UNCHANGED <<srvVars, processTZ>>

FnInit ==
    /\ call \in TextCalls("extractEventTitle") \cup TextCalls("extractSearchTitle")
                   \cup MatchCalls \cup DraftCalls \cup RangeCalls
    /\ pc = "idle"
    /\ req = Idle
    /\ frame = NoFrame
    /\ calls = <<>>
    /\ responses = <<>>
    /\ store = {}
    /\ nextId = 3
    /\ served = 0
    /\ processTZ \in IF call.fn = "getDateRange" THEN TZOffsets ELSE {0}

FnNext ==
    \/ CallExtractEventTitle
    \/ CallExtractSearchTitle
    \/ ReapplyExtractSearchTitle
    \/ CallFindMatchingEvent
    \/ CallCreateEventObject
    \/ CallGetDateRange

SpecFn == FnInit /\ [][FnNext]_vars

----------------------------------------------------------------------------
(* Properties of the utility functions, checked under SpecFn *)

\* p occurs in s at index i
OccursAt(s, p, i) ==
    i >= 1 /\ i + Len(p) - 1 <= Len(s) /\ SubSeq(s, i, i + Len(p) - 1) = p

Occurrences(s, p) == {i \in 1..(Len(s) + 1) : OccursAt(s, p, i)}

HasSubstring(s, p) == Occurrences(s, p) # {}

Returned(fn) == call.fn = fn /\ call.state = "returned"

\* event i of the call satisfies one of the two containments
Hit(i) ==
    \/ HasSubstring(toLowerCase(call.events[i].summary), call.searchTitle)
    \/ HasSubstring(call.searchTitle, toLowerCase(call.events[i].summary))

\* C5: findMatchingEvent returns the record of lowest index whose lowercased
\* title contains the search title or is contained in it, and nothing when no
\* record does; nothing for an empty list; the first record for an empty
\* search title and a non-empty list.
C5_FirstMatchWins ==
    Returned("findMatchingEvent") =>
        /\ call.result \in 0..Len(call.events)
        /\ call.result # 0 =>
              Hit(call.result) /\ \A j \in 1..(call.result - 1) : ~Hit(j)
        /\ call.result = 0 => \A j \in 1..Len(call.events) : ~Hit(j)
        /\ call.events = <<>> => call.result = 0
        /\ (call.searchTitle = <<>> /\ call.events # <<>>) => call.result = 1

\* the second of two records is returned, and only because the search title
\* contains its title
C5_Witness ==
    /\ Returned("findMatchingEvent")
    /\ call.result = 2
    /\ Len(call.searchTitle) > Len(call.events[2].summary)
    /\ call.events[2].summary # <<>>

\* C6 as stated: applying extractSearchTitle to its own result, with the same
\* expressions, gives that result again.
C6_Idempotent ==
    (call.fn = "extractSearchTitle" /\ call.state = "reapplied") =>
        call.result = call.once

\* C6 amended: applying extractSearchTitle to its own result gives that result
\* again whenever no expression's matched text occurs in that result.
C6_IdempotentWhenNoTextLeft ==
    ( /\ call.fn = "extractSearchTitle" /\ call.state = "reapplied"
      /\ \A i \in 1..Len(call.parsedDate) :
            ~HasSubstring(call.once, call.parsedDate[i].text) ) =>
        call.result = call.once

\* a date text and a verb were stripped, something is left, and no date text
\* is left in it
C6_Witness ==
    /\ call.fn = "extractSearchTitle" /\ call.state = "reapplied"
    /\ call.parsedDate # <<>>
    /\ \A i \in 1..Len(call.parsedDate) :
          ~HasSubstring(call.once, call.parsedDate[i].text)
    /\ HasSubstring(call.eventText, Cancel)
    /\ ~HasSubstring(call.once, Cancel)
    /\ call.once # <<>>
    /\ call.result = call.once

\* C7 as stated: with a single expression whose text occurs in the utterance,
\* the extracted title does not contain that text.
C7_TitleNeverContainsText ==
    ( /\ Returned("extractEventTitle")
      /\ Len(call.parsedDate) = 1
      /\ HasSubstring(call.eventText, call.parsedDate[1].text) ) =>
        ~HasSubstring(call.result, call.parsedDate[1].text)

\* the utterance holds the text again after its first occurrence
LaterOccurrence(u, m) ==
    \E i \in Occurrences(u, m), j \in Occurrences(u, m) : j >= i + Len(m)

\* cutting the first occurrence out joins the text around it into the text
JoinedOccurrence(u, m) ==
    LET first == CHOOSE i \in Occurrences(u, m) :
                     \A j \in Occurrences(u, m) : i <= j
        joined == SubSeq(u, 1, first - 1) \o SubSeq(u, first + Len(m), Len(u))
    IN \E p \in Occurrences(joined, m) : p < first /\ p + Len(m) > first

\* C7 amended: with a single expression whose text occurs in the utterance,
\* the extracted title contains that text only when the utterance holds a
\* further occurrence after the first, or when the text around the removed
\* occurrence joins into a new one; otherwise it does not contain it.
C7_OnlyFirstOccurrenceRemoved ==
    ( /\ Returned("extractEventTitle")
      /\ Len(call.parsedDate) = 1
      /\ HasSubstring(call.eventText, call.parsedDate[1].text)
      /\ HasSubstring(call.result, call.parsedDate[1].text) ) =>
        \/ LaterOccurrence(call.eventText, call.parsedDate[1].text)
        \/ JoinedOccurrence(call.eventText, call.parsedDate[1].text)

\* the single occurrence of the text was removed from between other words
C7_Witness ==
    /\ Returned("extractEventTitle")
    /\ Len(call.parsedDate) = 1
    /\ Cardinality(Occurrences(call.eventText, call.parsedDate[1].text)) = 1
    /\ ~HasSubstring(call.result, call.parsedDate[1].text)
    /\ Len(call.result) >= 2
    /\ Len(call.result) < Len(call.eventText) - Len(call.parsedDate[1].text)

\* C8: the draft starts at the expression's start; without an end in the
\* expression the draft ends exactly 3,600,000 ms after its start; with one,
\* the draft ends at the expression's end.
C8_DraftEnd ==
    Returned("createEventObject") =>
        LET start == DateParse(call.result.start.dateTime)
            end == DateParse(call.result.end.dateTime)
        IN /\ start = call.expression.start
           /\ ~call.expression.hasEnd => end - start = 3600000
           /\ call.expression.hasEnd => end = call.expression.end

\* a draft without an end, from a start with a millisecond part, whose end
\* falls on the next UTC day
C8_Witness ==
    /\ Returned("createEventObject")
    /\ ~call.expression.hasEnd
    /\ call.result.start.dateTime.ms # 0
    /\ call.result.end.dateTime.day = call.result.start.dateTime.day + 1

\* calendar day of an instant in the display timezone
DubaiDay(t) == (t + DubaiOffset) \div DayMs

\* C9: the two ends of getDateRange(d) fall on the display-timezone calendar
\* day of d and are exactly 86,399,999 ms apart.
C9_RangeIsDisplayDay ==
    Returned("getDateRange") =>
        LET lo == DateParse(call.result.timeMin)
            hi == DateParse(call.result.timeMax)
        IN /\ DubaiDay(lo) = DubaiDay(call.date)
           /\ DubaiDay(hi) = DubaiDay(call.date)
           /\ hi - lo = 86399999

HasUpper(s) == \E i \in 1..Len(s) : s[i] \in UpperChars

\* C10: with a single expression whose text occurs in the utterance and holds
\* an uppercase character, the search title is the lowercased utterance with
\* the first occurrence of the lowercased text removed, then the verbs
\* stripped.
C10_TextRemovedWhateverItsCase ==
    ( /\ Returned("extractSearchTitle")
      /\ Len(call.parsedDate) = 1
      /\ HasUpper(call.parsedDate[1].text)
      /\ HasSubstring(call.eventText, call.parsedDate[1].text) ) =>
        call.result =
            trim(stripVerbs(trim(replaceFirst(
                toLowerCase(call.eventText),
                toLowerCase(call.parsedDate[1].text)))))

============================================================================
